---- MODULE Spec2Model ----
(***************************************************************************)
(* Model of jrnl/util.py: split_title, slugify, colorize,                  *)
(* highlight_tags_with_background_color and decrypt_content.               *)
(*                                                                         *)
(* A text is a sequence of code points; a code point is a one-element      *)
(* string ("a", " ", "\n") or, for code points outside ASCII and for the   *)
(* colorama escape sequences, a named token ("U+0301", "Fore.RED").        *)
(***************************************************************************)
EXTENDS Integers, Sequences, FiniteSets, TLC

(* ---------------------------- bounds ---------------------------------- *)
MaxSplitLen == 5
MaxSlugLen == 4
MaxHlLen == 4
MaxColorizeLen == 1
MaxAttemptsBound == 3

(* ------------------------- character classes -------------------------- *)
\* str.isspace / the regex class \s, restricted to the code points used here
Whitespace == {" ", "\n"}

\* string.punctuation (U+0022 is the double quote, U+005C the backslash, U+0060 the backtick)
punctuation ==
    {"!", "U+0022", "#", "$", "%", "&", "'", "(", ")", "*", "+", ",", "-", ".",
     "/", ":", ";", "<", "=", ">", "?", "@", "[", "U+005C", "]", "^", "_", "U+0060",
     "{", "|", "}", "~"}

\* first character class of SENTENCE_SPLITTER
SentenceTerminals ==
    {".", "!", "?", "U+203C", "U+203D", "U+2047", "U+2048", "U+2049",
     "U+3002", "U+FE52", "U+FE57", "U+FF01", "U+FF0E", "U+FF1F", "U+FF61"}

\* second character class of SENTENCE_SPLITTER
RightQuotes == {"'", "U+2019", "U+0022", "U+201D"}

\* third character class of SENTENCE_SPLITTER
ClosingBrackets == {"]", ")"}

\* re.search found nothing
NoMatch == -1

(* --------------------------- string helpers --------------------------- *)
Min(a, b) == IF a < b THEN a ELSE b

Max(a, b) == IF a > b THEN a ELSE b

\* Python slice s[a:b] for 0 <= a, 0 <= b (indices clamped to the length)
Slice(s, a, b) ==
    LET lo == Min(a, Len(s))
        hi == Min(b, Len(s))
    IN  IF lo >= hi THEN << >> ELSE SubSeq(s, lo + 1, hi)

\* number of consecutive elements of s, from 1-based position p on, that lie in class
RunLen(s, p, class) ==
    CHOOSE n \in 0..Max(0, Len(s) - p + 1) :
        /\ \A k \in 0..(n - 1) : s[p + k] \in class
        /\ (p + n > Len(s) \/ s[p + n] \notin class)

\* str.lstrip()
lstrip(s) == Slice(s, RunLen(s, 1, Whitespace), Len(s))

\* str.rstrip()
rstrip(s) ==
    LET n == CHOOSE m \in 0..Len(s) :
                /\ \A k \in (m + 1)..Len(s) : s[k] \in Whitespace
                /\ (m = 0 \/ s[m] \notin Whitespace)
    IN  Slice(s, 0, n)

\* str.strip()
strip(s) == rstrip(lstrip(s))

\* all texts over an alphabet up to a length
TextsUpTo(alphabet, n) == UNION {[1..k -> alphabet] : k \in 0..n}

(* ----------------------------- split_title ---------------------------- *)
\* SENTENCE_SPLITTER_ONLY_NEWLINE.search(s): end offset of the first "\n"
NewlineSearchEnd(s) ==
    IF \E p \in 1..Len(s) : s[p] = "\n"
    THEN CHOOSE p \in 1..Len(s) : s[p] = "\n" /\ \A r \in 1..(p - 1) : s[r] # "\n"
    ELSE NoMatch

\* the regex tried at 1-based start p with q quotes taken: end offset or NoMatch.
\* The bracket and whitespace runs are greedy; giving a bracket or a space back
\* cannot make the rest match, so only the greedy lengths are tried.
SentenceMatchWithQuote(s, p, q) ==
    LET b == RunLen(s, p + 1 + q, ClosingBrackets)
        w == RunLen(s, p + 1 + q + b, Whitespace)
    IN  IF w >= 1 THEN p + q + b + w ELSE NoMatch

\* the regex tried at 1-based start p: the optional quote is taken first, then skipped
SentenceMatchAt(s, p) ==
    IF s[p] \notin SentenceTerminals THEN NoMatch
    ELSE IF p + 1 <= Len(s) /\ s[p + 1] \in RightQuotes
              /\ SentenceMatchWithQuote(s, p, 1) # NoMatch
         THEN SentenceMatchWithQuote(s, p, 1)
         ELSE SentenceMatchWithQuote(s, p, 0)

\* mutant: the trailing whitespace is not required
SentenceSearchEndNoSpace(s) ==
    IF \E p \in 1..Len(s) : s[p] \in SentenceTerminals
    THEN LET p == CHOOSE r \in 1..Len(s) :
                    /\ s[r] \in SentenceTerminals
                    /\ \A o \in 1..(r - 1) : s[o] \notin SentenceTerminals
             q == IF p + 1 <= Len(s) /\ s[p + 1] \in RightQuotes THEN 1 ELSE 0
             b == RunLen(s, p + 1 + q, ClosingBrackets)
         IN  p + q + b + RunLen(s, p + 1 + q + b, Whitespace)
    ELSE NoMatch

\* SENTENCE_SPLITTER.search(s): end offset of the leftmost match
SentenceSearchEnd(s) ==
    IF \E p \in 1..Len(s) : SentenceMatchAt(s, p) # NoMatch
    THEN LET p == CHOOSE r \in 1..Len(s) :
                    /\ SentenceMatchAt(s, r) # NoMatch
                    /\ \A o \in 1..(r - 1) : SentenceMatchAt(s, o) = NoMatch
         IN  SentenceMatchAt(s, p)
    ELSE NoMatch

\* mutant: the body starts one character after the boundary
split_title_skip(t) ==
    LET nl == NewlineSearchEnd(lstrip(t))
        sep == IF nl # NoMatch THEN nl ELSE SentenceSearchEnd(t)
    IN  IF sep = NoMatch THEN <<t, << >> >>
        ELSE <<strip(Slice(t, 0, sep)), strip(Slice(t, sep + 1, Len(t)))>>

\* split_title(text): <<title, body>>
split_title(t) ==
    LET nl == NewlineSearchEnd(lstrip(t))
        sep == IF nl # NoMatch THEN nl ELSE SentenceSearchEnd(t)
    IN  IF sep = NoMatch THEN <<t, << >> >>
        ELSE <<strip(Slice(t, 0, sep)), strip(Slice(t, sep, Len(t)))>>

(* ------------------------------- slugify ------------------------------ *)
\* the regex class \w, restricted to the code points used here
WordChars == {"a", "b", "B", "e", "E", "U+00C9", "_"}

\* unicodedata.normalize("NFKD", c) of one code point (U+00C9 is E with acute)
NFKD1(c) == IF c = "U+00C9" THEN <<"E", "U+0301">> ELSE <<c>>

RECURSIVE NFKD(_)
\* unicodedata.normalize("NFKD", s)
NFKD(s) == IF s = << >> THEN << >> ELSE NFKD1(Head(s)) \o NFKD(Tail(s))

\* str.lower() of one code point
lower1(c) == IF c = "B" THEN "b" ELSE IF c = "E" THEN "e" ELSE c

\* str.lower()
lower(s) == [k \in 1..Len(s) |-> lower1(s[k])]

\* re.sub(r"[^\w\s-]", "", s)
RemoveNonSlugChars(s) == SelectSeq(s, LAMBDA c : c \in WordChars \union Whitespace \union {"-"})

RECURSIVE CollapseRuns(_)
\* re.sub(r"[-\s]+", "-", s)
CollapseRuns(s) ==
    IF s = << >> THEN << >>
    ELSE IF Head(s) \in Whitespace \union {"-"}
         THEN <<"-">> \o CollapseRuns(Slice(s, RunLen(s, 1, Whitespace \union {"-"}), Len(s)))
         ELSE <<Head(s)>> \o CollapseRuns(Tail(s))

\* mutant: the runs are collapsed before the other characters are removed
slugify_late_removal(string) ==
    RemoveNonSlugChars(CollapseRuns(lower(strip(NFKD(string)))))

\* slugify(string)
slugify(string) ==
    LET normalized_string == NFKD(string)
        no_punctuation == lower(strip(RemoveNonSlugChars(normalized_string)))
    IN  CollapseRuns(no_punctuation)

(* ------------------------------ colorize ------------------------------ *)
\* Python's None
None == "None"

\* color names a configuration may hold
ColorNames == {"red", "RED", "blue", "NONE", "none", "bogus"}

\* str.upper() of a color name
upper_name(name) ==
    CASE name = "red" -> "RED"
      [] name = "blue" -> "BLUE"
      [] name = "none" -> "NONE"
      [] name = "bogus" -> "BOGUS"
      [] OTHER -> name

\* the attributes of colorama.Fore
ForeAttributes == {"BLACK", "RED", "GREEN", "YELLOW", "BLUE", "MAGENTA", "CYAN", "WHITE", "RESET"}

\* getattr(colorama.Fore, attr, None): the escape sequence, as one token
ForeEscape(attr) ==
    CASE attr = "BLACK" -> "Fore.BLACK"
      [] attr = "RED" -> "Fore.RED"
      [] attr = "GREEN" -> "Fore.GREEN"
      [] attr = "YELLOW" -> "Fore.YELLOW"
      [] attr = "BLUE" -> "Fore.BLUE"
      [] attr = "MAGENTA" -> "Fore.MAGENTA"
      [] attr = "CYAN" -> "Fore.CYAN"
      [] attr = "WHITE" -> "Fore.WHITE"
      [] attr = "RESET" -> "Fore.RESET"
      [] OTHER -> None

\* the escape sequences colorize can emit
Markers ==
    {ForeEscape(attr) : attr \in ForeAttributes} \union {"Style.BRIGHT", "Style.RESET_ALL"}

\* mutant: a color that does not resolve still gets the reset sequence appended
colorize_reset_always(string, color, bold) ==
    LET color_escape == ForeEscape(upper_name(color))
    IN  IF color_escape = None THEN string \o <<"Fore.RESET">>
        ELSE IF ~bold THEN <<color_escape>> \o string \o <<"Fore.RESET">>
        ELSE <<"Style.BRIGHT", color_escape>> \o string \o <<"Style.RESET_ALL">>

\* colorize(string, color, bold)
colorize(string, color, bold) ==
    LET color_escape == ForeEscape(upper_name(color))
    IN  IF color_escape = None THEN string
        ELSE IF ~bold THEN <<color_escape>> \o string \o <<"Fore.RESET">>
        ELSE <<"Style.BRIGHT", color_escape>> \o string \o <<"Style.RESET_ALL">>

(* ---------------- highlight_tags_with_background_color ---------------- *)
\* a character that continues a tag after its symbol: neither whitespace nor
\* punctuation, hyphen and underscore excepted
TagContinuation == {"a", "-", "_"}

\* length of the tag that starts at 1-based position p, 0 when none starts there
TagMatchLen(s, p, tagsymbols) ==
    IF s[p] \in tagsymbols /\ RunLen(s, p + 1, TagContinuation) >= 1
    THEN 1 + RunLen(s, p + 1, TagContinuation)
    ELSE 0

RECURSIVE re_split(_, _)
\* re.split(entry.tag_regex(tagsymbols), text): the text between the tags and
\* the tags themselves, in order, empty strings included
re_split(s, tagsymbols) ==
    IF \E p \in 1..Len(s) : TagMatchLen(s, p, tagsymbols) > 0
    THEN LET p == CHOOSE r \in 1..Len(s) :
                    /\ TagMatchLen(s, r, tagsymbols) > 0
                    /\ \A o \in 1..(r - 1) : TagMatchLen(s, o, tagsymbols) = 0
             n == TagMatchLen(s, p, tagsymbols)
         IN  <<Slice(s, 0, p - 1), Slice(s, p - 1, p - 1 + n)>>
                 \o re_split(Slice(s, p - 1 + n, Len(s)), tagsymbols)
    ELSE <<s>>

\* what colorized_text_generator yields for a non-empty part: the colorized string
colorized_text_generator(part, cfg, base_color, title_flag) ==
    IF part[1] \notin cfg.tagsymbols
    THEN colorize(part, base_color, title_flag)
    ELSE colorize(part, cfg.colors.tags, TRUE)

\* mutant: a piece that follows a tag gets a leading space
no_leading_space_after_tag_dropped(piece, previous, tagsymbols) ==
    \/ \A k \in 1..Len(piece) : piece[k] \in punctuation \union Whitespace
    \/ (previous # << >> /\ previous[Len(previous)] = "\n")
    \/ piece[1] \in tagsymbols

\* mutant: a tag gets a leading space
no_leading_space_tag_dropped(piece, previous, tagsymbols) ==
    \/ \A k \in 1..Len(piece) : piece[k] \in punctuation \union Whitespace
    \/ (previous # << >> /\ previous[Len(previous)] = "\n")
    \/ (previous # << >> /\ previous[1] \in tagsymbols)

\* the condition under which a piece is appended without a leading space
no_leading_space(piece, previous, tagsymbols) ==
    \/ \A k \in 1..Len(piece) : piece[k] \in punctuation \union Whitespace
    \/ (previous # << >> /\ previous[Len(previous)] = "\n")
    \/ (previous # << >> /\ previous[1] \in tagsymbols)
    \/ piece[1] \in tagsymbols

(* --------------------------- decrypt_content -------------------------- *)
\* passwords a user can type or a keyring can hold
Passwords == {"pw1", "pw2"}

\* what decrypt_func can return: None for a bad password, else the content
DecryptResults == {None, "", "plaintext"}

\* Python truthiness of an Optional[str]
Truthy(v) == v # None /\ v # ""

(* ------------------------------- inputs ------------------------------- *)
SplitAlphabet == {"a", " ", "\n", ".", "'", ")"}

SplitTexts == TextsUpTo(SplitAlphabet, MaxSplitLen)

SlugAlphabet == {"a", "B", "U+00C9", "-", " ", "!"}

SlugTexts == TextsUpTo(SlugAlphabet, MaxSlugLen)

ColorizeTexts == TextsUpTo({"a", " "}, MaxColorizeLen)

HlAlphabet == {"a", "@", "#", " ", "\n"}

HlTexts == TextsUpTo(HlAlphabet, MaxHlLen)

\* journal configurations: the keys highlight_tags_with_background_color reads
Configs ==
    [highlight : BOOLEAN,
     tagsymbols : {{"@"}, {"@", "#"}},
     colors : [tags : {"blue", "bogus"}]]

HlColors == {"red", "NONE"}

(* ------------------------------- state -------------------------------- *)
VARIABLES
    pc,              \* which function runs and where it is
    text,            \* the text argument
    title, body,     \* split_title's result
    slug,            \* slugify's result
    color, bold,     \* colorize's / the renderer's color argument; colorize's bold
    colorized,       \* colorize's result
    config, is_title, text_fragments, next_part, final_text, previous_piece,
    highlighted,     \* the renderer's return value
    max_attempts, keychain, keyring, password, result, attempt,
    decrypt_calls,   \* the results of the calls of decrypt_func, in order
    returned,        \* decrypt_content's return value
    exit_status      \* the status of sys.exit, None while the process runs

splitVars == <<title, body>>

colorizeVars == <<bold, colorized>>

hlVars == <<config, is_title, text_fragments, next_part, final_text, previous_piece, highlighted>>

decryptVars == <<max_attempts, keychain, keyring, password, result, attempt,
                 decrypt_calls, returned, exit_status>>

vars == <<pc, text, splitVars, slug, color, colorizeVars, hlVars, decryptVars>>

Init ==
    /\ pc = "idle"
    /\ text = << >>
    /\ title = << >>
    /\ body = << >>
    /\ slug = << >>
    /\ color = "none"
    /\ bold = FALSE
    /\ colorized = << >>
    /\ config = [highlight |-> FALSE, tagsymbols |-> {"@"}, colors |-> [tags |-> "none"]]
    /\ is_title = FALSE
    /\ text_fragments = << >>
    /\ next_part = 1
    /\ final_text = << >>
    /\ previous_piece = << >>
    /\ highlighted = << >>
    /\ max_attempts = 3
    /\ keychain = None
    /\ keyring = None
    /\ password = None
    /\ result = None
    /\ attempt = 0
    /\ decrypt_calls = << >>
    /\ returned = None
    /\ exit_status = None

\* a caller runs split_title on a text
SplitTitle ==
    /\ pc = "idle"
    /\ \E t \in SplitTexts :
        /\ text' = t
        /\ title' = split_title(t)[1]
        /\ body' = split_title(t)[2]
    /\ pc' = "split_done"
    /\ UNCHANGED <<slug, color, colorizeVars, hlVars, decryptVars>>

\* a caller runs slugify on a text
Slugify ==
    /\ pc = "idle"
    /\ \E t \in SlugTexts :
        /\ text' = t
        /\ slug' = slugify(t)
    /\ pc' = "slug_done"
    /\ UNCHANGED <<splitVars, color, colorizeVars, hlVars, decryptVars>>

\* a caller runs slugify on the slug it got
SlugifyAgain ==
    /\ pc = "slug_done"
    /\ text' = slug
    /\ slug' = slugify(slug)
    /\ pc' = "reslug_done"
    /\ UNCHANGED <<splitVars, color, colorizeVars, hlVars, decryptVars>>

\* a caller runs colorize on a string
Colorize ==
    /\ pc = "idle"
    /\ \E s \in ColorizeTexts : \E c \in ColorNames : \E b \in BOOLEAN :
        /\ text' = s
        /\ color' = c
        /\ bold' = b
        /\ colorized' = colorize(s, c, b)
    /\ pc' = "colorize_done"
    /\ UNCHANGED <<splitVars, slug, hlVars, decryptVars>>

\* mutant: with highlighting off the text is returned without its leading whitespace
HighlightOffStripped ==
    /\ pc = "idle"
    /\ \E t \in HlTexts : \E cfg \in Configs : \E c \in HlColors : \E it \in BOOLEAN :
        /\ ~cfg.highlight
        /\ text' = t
        /\ config' = cfg
        /\ color' = c
        /\ is_title' = it
        /\ highlighted' = lstrip(t)
    /\ pc' = "highlight_done"
    /\ UNCHANGED <<splitVars, slug, colorizeVars, text_fragments, next_part, final_text,
                   previous_piece, decryptVars>>

\* the renderer is called with highlighting off: the else branch
HighlightOff ==
    /\ pc = "idle"
    /\ \E t \in HlTexts : \E cfg \in Configs : \E c \in HlColors : \E it \in BOOLEAN :
        /\ ~cfg.highlight
        /\ text' = t
        /\ config' = cfg
        /\ color' = c
        /\ is_title' = it
        /\ highlighted' = t
    /\ pc' = "highlight_done"
    /\ UNCHANGED <<splitVars, slug, colorizeVars, text_fragments, next_part, final_text,
                   previous_piece, decryptVars>>

\* the renderer is called with highlighting on: the text is split, the loop starts
HighlightOn ==
    /\ pc = "idle"
    /\ \E t \in HlTexts : \E cfg \in Configs : \E c \in HlColors : \E it \in BOOLEAN :
        /\ cfg.highlight
        /\ text' = t
        /\ config' = cfg
        /\ color' = c
        /\ is_title' = it
        /\ text_fragments' = re_split(t, cfg.tagsymbols)
    /\ final_text' = << >>
    /\ previous_piece' = << >>
    /\ next_part' = 1
    /\ pc' = "highlight_loop"
    /\ UNCHANGED <<splitVars, slug, colorizeVars, highlighted, decryptVars>>

\* the generator skips an empty part
HighlightSkipEmpty ==
    /\ pc = "highlight_loop"
    /\ next_part <= Len(text_fragments)
    /\ text_fragments[next_part] = << >>
    /\ next_part' = next_part + 1
    /\ UNCHANGED <<pc, text, splitVars, slug, color, colorizeVars, config, is_title,
                   text_fragments, final_text, previous_piece, highlighted, decryptVars>>

\* one iteration of the loop: the next non-empty part is colorized and appended
HighlightPiece ==
    /\ pc = "highlight_loop"
    /\ next_part <= Len(text_fragments)
    /\ text_fragments[next_part] # << >>
    /\ LET piece == text_fragments[next_part]
           colorized_piece == colorized_text_generator(piece, config, color, is_title)
       IN  /\ final_text' =
                IF no_leading_space(piece, previous_piece, config.tagsymbols)
                THEN final_text \o colorized_piece
                ELSE final_text \o <<" ">> \o colorized_piece
           /\ previous_piece' = piece
    /\ next_part' = next_part + 1
    /\ UNCHANGED <<pc, text, splitVars, slug, color, colorizeVars, config, is_title,
                   text_fragments, highlighted, decryptVars>>

\* the loop is over: return final_text.lstrip()
HighlightReturn ==
    /\ pc = "highlight_loop"
    /\ next_part > Len(text_fragments)
    /\ highlighted' = lstrip(final_text)
    /\ pc' = "highlight_done"
    /\ UNCHANGED <<text, splitVars, slug, color, colorizeVars, config, is_title,
                   text_fragments, next_part, final_text, previous_piece, decryptVars>>

\* decrypt_content up to the loop: the keychain lookup and the first call
DecryptFirst ==
    /\ pc = "idle"
    /\ \E m \in 0..MaxAttemptsBound : \E kc \in {None, "journal"} :
       \E stored \in Passwords \union {None, ""} : \E typed \in Passwords :
       \E r \in DecryptResults :
        LET pwd_from_keychain == IF kc = None THEN None ELSE stored
        IN  /\ max_attempts' = m
            /\ keychain' = kc
            /\ password' = IF Truthy(pwd_from_keychain) THEN pwd_from_keychain ELSE typed
            /\ result' = r
            /\ decrypt_calls' = <<r>>
            /\ keyring' = IF r = None /\ Truthy(pwd_from_keychain) THEN None ELSE stored
    /\ attempt' = 1
    /\ pc' = "decrypt_loop"
    /\ UNCHANGED <<text, splitVars, slug, color, colorizeVars, hlVars, returned, exit_status>>

\* mutant: the loop runs while attempt <= max_attempts
DecryptRetryOffByOne ==
    /\ pc = "decrypt_loop"
    /\ result = None
    /\ attempt <= max_attempts
    /\ \E typed \in Passwords : \E r \in DecryptResults :
        /\ password' = typed
        /\ result' = r
        /\ decrypt_calls' = Append(decrypt_calls, r)
    /\ attempt' = attempt + 1
    /\ UNCHANGED <<pc, text, splitVars, slug, color, colorizeVars, hlVars, max_attempts,
                   keychain, keyring, returned, exit_status>>

\* one iteration of the while loop: ask again, call decrypt_func again
DecryptRetry ==
    /\ pc = "decrypt_loop"
    /\ result = None
    /\ attempt < max_attempts
    /\ \E typed \in Passwords : \E r \in DecryptResults :
        /\ password' = typed
        /\ result' = r
        /\ decrypt_calls' = Append(decrypt_calls, r)
    /\ attempt' = attempt + 1
    /\ UNCHANGED <<pc, text, splitVars, slug, color, colorizeVars, hlVars, max_attempts,
                   keychain, keyring, returned, exit_status>>

\* after the loop, result is not None: return it
DecryptReturn ==
    /\ pc = "decrypt_loop"
    /\ ~(result = None /\ attempt < max_attempts)
    /\ result # None
    /\ returned' = result
    /\ pc' = "decrypt_returned"
    /\ UNCHANGED <<text, splitVars, slug, color, colorizeVars, hlVars, max_attempts,
                   keychain, keyring, password, result, attempt, decrypt_calls, exit_status>>

\* after the loop, result is None: sys.exit(1)
DecryptExit ==
    /\ pc = "decrypt_loop"
    /\ ~(result = None /\ attempt < max_attempts)
    /\ result = None
    /\ exit_status' = 1
    /\ pc' = "exited"
    /\ UNCHANGED <<text, splitVars, slug, color, colorizeVars, hlVars, max_attempts,
                   keychain, keyring, password, result, attempt, decrypt_calls, returned>>

Next ==
    \/ SplitTitle
    \/ Slugify
    \/ SlugifyAgain
    \/ Colorize
    \/ HighlightOff
    \/ HighlightOn
    \/ HighlightSkipEmpty
    \/ HighlightPiece
    \/ HighlightReturn
    \/ DecryptFirst
    \/ DecryptRetry
    \/ DecryptReturn
    \/ DecryptExit

Spec == Init /\ [][Next]_vars

(* ============================ properties ============================== *)
\* text s has a first newline at 1-based position p
FirstNewlineAt(s, p) ==
    /\ p \in 1..Len(s)
    /\ s[p] = "\n"
    /\ \A r \in 1..(p - 1) : s[r] # "\n"

\* s[p..e] is: one sentence terminal, at most one right quote, closing brackets,
\* one or more whitespace characters
IsSentenceBoundary(s, p, e) ==
    /\ p \in 1..Len(s)
    /\ e \in 1..Len(s)
    /\ s[p] \in SentenceTerminals
    /\ \E q \in {0, 1} : \E b \in 0..Len(s) :
        /\ p + q + b < e
        /\ q = 1 => s[p + 1] \in RightQuotes
        /\ \A k \in 1..b : s[p + q + k] \in ClosingBrackets
        /\ \A k \in (p + q + b + 1)..e : s[k] \in Whitespace

HasSentenceBoundary(s) == \E p \in 1..Len(s) : \E e \in 1..Len(s) : IsSentenceBoundary(s, p, e)

HasNewlineBoundary(s) == \E p \in 1..Len(lstrip(s)) : FirstNewlineAt(lstrip(s), p)

\* the non-whitespace characters of s, in order
NonWhitespace(s) == SelectSeq(s, LAMBDA c : c \notin Whitespace)

\* C1: when the leading-stripped text contains a newline, title is the trimmed
\* part of that stripped text before its first newline and body the trimmed
\* part after it, also when the text begins with whitespace.
C1_SplitAtFirstNewline ==
    pc = "split_done" =>
        \A p \in 1..Len(lstrip(text)) :
            FirstNewlineAt(lstrip(text), p) =>
                /\ title = strip(Slice(lstrip(text), 0, p - 1))
                /\ body = strip(Slice(lstrip(text), p, Len(lstrip(text))))

\* C2: when neither a newline boundary nor a sentence boundary is found, title
\* is the trimmed text and body is empty; whitespace-only text gives ("", "").
C2_NoBoundaryTrimmedTitle ==
    (pc = "split_done" /\ ~HasNewlineBoundary(text) /\ ~HasSentenceBoundary(text)) =>
        /\ title = strip(text)
        /\ body = << >>

\* C3: with no newline boundary, the split is at the end of the first match of
\* terminal, optional quote, brackets, whitespace: title = trim(text[0:end]),
\* body = trim(text[end:]); without such a match nothing is split off.
C3_SplitAtFirstSentenceBoundary ==
    (pc = "split_done" /\ ~HasNewlineBoundary(text)) =>
        /\ \A p \in 1..Len(text) : \A e \in 1..Len(text) :
            (/\ IsSentenceBoundary(text, p, e)
             /\ \A o \in 1..(p - 1) : \A f \in 1..Len(text) : ~IsSentenceBoundary(text, o, f)
             /\ (e = Len(text) \/ text[e + 1] \notin Whitespace)) =>
                /\ title = strip(Slice(text, 0, e))
                /\ body = strip(Slice(text, e, Len(text)))
        /\ ~HasSentenceBoundary(text) => body = << >>

\* a sentence boundary with a quote and a bracket was used, an unused later
\* terminal follows in the body
C3_Witness ==
    /\ pc = "split_done"
    /\ ~HasNewlineBoundary(text)
    /\ \E e \in 1..Len(text) : IsSentenceBoundary(text, 1, e) /\ text[2] \in RightQuotes
                                /\ text[3] \in ClosingBrackets
    /\ body # << >>
    /\ \E k \in 1..Len(body) : body[k] \in SentenceTerminals

\* C4: title + ("" if body is empty else " " + body) has exactly the
\* non-whitespace characters of the text, in the same order.
C4_ContentPreserved ==
    pc = "split_done" =>
        NonWhitespace(title \o (IF body = << >> THEN << >> ELSE <<" ">> \o body))
            = NonWhitespace(text)

\* a text that starts with whitespace was split at a newline into two non-empty parts
C4_Witness ==
    /\ pc = "split_done"
    /\ HasNewlineBoundary(text)
    /\ text # << >> /\ text[1] \in Whitespace
    /\ title # << >>
    /\ body # << >>

\* C8: slugify(slugify(x)) = slugify(x), and every slug consists of lowercase
\* word characters and single hyphens.
C8_SlugifyIdempotent ==
    /\ pc \in {"slug_done", "reslug_done"} =>
        /\ \A k \in 1..Len(slug) : slug[k] \in {c \in WordChars : lower1(c) = c} \union {"-"}
        /\ \A k \in 1..(Len(slug) - 1) : ~(slug[k] = "-" /\ slug[k + 1] = "-")
    /\ pc = "reslug_done" => slug = text

\* a slug that begins and ends with a hyphen was slugified again
C8_Witness ==
    /\ pc = "reslug_done"
    /\ Len(text) >= 3
    /\ Head(text) = "-"
    /\ text[Len(text)] = "-"

\* the non-empty fragments among the first n fragments, in order
PiecesOf(frags, n) == SelectSeq(SubSeq(frags, 1, n), LAMBDA f : f # << >>)

RECURSIVE Flat(_)
\* the concatenation of a sequence of texts
Flat(frags) == IF frags = << >> THEN << >> ELSE Head(frags) \o Flat(Tail(frags))

\* s without the color and style escape sequences
Unmarked(s) == SelectSeq(s, LAMBDA c : c \notin Markers)

\* a color name that names a display color
Resolvable(name) == upper_name(name) \in ForeAttributes

\* the piece as the renderer colors it: tags in the tag color and bold,
\* other text in the base color, bold for a title
ColoredPiece(piece) ==
    IF piece[1] \in config.tagsymbols
    THEN colorize(piece, config.colors.tags, TRUE)
    ELSE colorize(piece, color, is_title)

\* none of the four exceptions of C5 applies to the j-th piece
SpaceBefore(pieces, j) ==
    /\ \E k \in 1..Len(pieces[j]) : pieces[j][k] \notin punctuation \union Whitespace
    /\ ~(j > 1 /\ pieces[j - 1][Len(pieces[j - 1])] = "\n")
    /\ ~(j > 1 /\ pieces[j - 1][1] \in config.tagsymbols)
    /\ pieces[j][1] \notin config.tagsymbols

RECURSIVE Assembled(_, _)
\* the first k pieces, colored, each with its space when SpaceBefore holds
Assembled(pieces, k) ==
    IF k = 0 THEN << >>
    ELSE Assembled(pieces, k - 1)
            \o (IF SpaceBefore(pieces, k) THEN <<" ">> ELSE << >>)
            \o ColoredPiece(pieces[k])

\* C5: with highlighting on, the colorized non-empty fragments are concatenated
\* in order, with one space before a fragment unless it is all
\* punctuation/whitespace, or the previous one ends with a newline or starts
\* with a tag symbol, or it starts with a tag symbol itself; the result is that
\* concatenation without its leading whitespace, trailing whitespace kept.
C5_SpacingReassembly ==
    (pc \in {"highlight_loop", "highlight_done"} /\ config.highlight) =>
        LET pieces == PiecesOf(text_fragments, next_part - 1)
        IN  /\ final_text = Assembled(pieces, Len(pieces))
            /\ pc = "highlight_done" =>
                \E n \in 0..Len(final_text) :
                    /\ \A k \in 1..n : final_text[k] \in Whitespace
                    /\ highlighted = Slice(final_text, n, Len(final_text))
                    /\ (highlighted = << >> \/ highlighted[1] \notin Whitespace)

\* a text was rendered in which a word follows a tag
C5_Witness ==
    /\ pc = "highlight_done"
    /\ config.highlight
    /\ LET pieces == PiecesOf(text_fragments, Len(text_fragments))
       IN  \E j \in 2..Len(pieces) :
            /\ pieces[j - 1][1] \in config.tagsymbols
            /\ pieces[j][1] \notin config.tagsymbols
            /\ \E k \in 1..Len(pieces[j]) : pieces[j][k] = "a"

\* C6: with the highlight flag false the renderer returns the text unchanged,
\* whatever the tag symbols, colors and title flag are.
C6_HighlightOffReturnsText ==
    (pc = "highlight_done" /\ ~config.highlight) => highlighted = text

\* with highlighting off, a text with leading whitespace and a tag was rendered
C6_Witness ==
    /\ pc = "highlight_done"
    /\ ~config.highlight
    /\ text # << >>
    /\ text[1] \in Whitespace
    /\ Len(re_split(text, config.tagsymbols)) > 1

\* C7: a color name that does not resolve ("NONE" or unknown) leaves the string
\* exactly as given, bold or not; only a resolvable name wraps it in markers.
C7_UnresolvedColorUncolored ==
    pc = "colorize_done" =>
        /\ ~Resolvable(color) => colorized = text
        /\ Resolvable(color) =>
            /\ Unmarked(colorized) = text
            /\ Len(colorized) > Len(text)
            /\ colorized[1] \in Markers
            /\ colorized[Len(colorized)] \in Markers

\* a non-empty string was colorized bold with a color that does not resolve
C7_Witness ==
    /\ pc = "colorize_done"
    /\ ~Resolvable(color)
    /\ bold
    /\ text # << >>

\* plain and tag fragments alternate starting with a plain one, every tag
\* fragment begins with a tag symbol, the fragments concatenate to the text
FragmentsFromCapturingSplit ==
    /\ Len(text_fragments) % 2 = 1
    /\ \A k \in 1..Len(text_fragments) :
        k % 2 = 0 => (text_fragments[k] # << >> /\ text_fragments[k][1] \in config.tagsymbols)
    /\ Flat(text_fragments) = text

\* C9: with highlighting on and fragments from a capturing split, a space is
\* inserted at most before the first non-empty fragment, and the output without
\* markers and leading whitespace is the text without leading whitespace.
C9_NoSpaceAddedOrDropped ==
    (pc \in {"highlight_loop", "highlight_done"} /\ config.highlight
        /\ FragmentsFromCapturingSplit) =>
        LET done == Flat(SubSeq(text_fragments, 1, next_part - 1))
        IN  /\ \/ Unmarked(final_text) = done
               \/ (done # << >> /\ Unmarked(final_text) = <<" ">> \o done)
            /\ pc = "highlight_done" => lstrip(Unmarked(highlighted)) = lstrip(text)

\* a text with a word, a space and a tag was rendered, and a space was put
\* before the first fragment
C9_Witness ==
    /\ pc = "highlight_done"
    /\ config.highlight
    /\ \E k \in 1..(Len(text) - 3) :
        /\ text[k] = "a"
        /\ text[k + 1] = " "
        /\ text[k + 2] \in config.tagsymbols
        /\ text[k + 3] = "a"
    /\ Unmarked(final_text) = <<" ">> \o text

\* C10: for max_attempts >= 1, decrypt_func is called at most max_attempts
\* times, no call follows a call that returned a non-None result, that result
\* is returned, and after max_attempts failed calls the process exits with 1.
C10_DecryptAttempts ==
    (pc \in {"decrypt_loop", "decrypt_returned", "exited"} /\ max_attempts >= 1) =>
        /\ Len(decrypt_calls) <= max_attempts
        /\ \A k \in 1..(Len(decrypt_calls) - 1) : decrypt_calls[k] = None
        /\ pc = "decrypt_returned" =>
            /\ decrypt_calls[Len(decrypt_calls)] # None
            /\ returned = decrypt_calls[Len(decrypt_calls)]
            /\ exit_status = None
        /\ pc = "exited" =>
            /\ Len(decrypt_calls) = max_attempts
            /\ \A k \in 1..Len(decrypt_calls) : decrypt_calls[k] = None
            /\ exit_status = 1
            /\ returned = None

\* the process exited after several failed attempts on a journal that has a
\* keychain name and no keyring entry left
C10_Witness ==
    /\ pc = "exited"
    /\ max_attempts >= 2
    /\ Len(decrypt_calls) = max_attempts
    /\ keychain # None
    /\ keyring = None

====
